---------------------------- MODULE Spec2Model ----------------------------
(***************************************************************************)
(* Model of the Dialogflow webhook of server.js: the two pending-session   *)
(* sets, the intent resolution of POST /dialogflow, the flow handlers and  *)
(* the calls they await (the generative fallback and the database saves).  *)
(*                                                                         *)
(* One action is one run of the event loop: the arrival of a request runs  *)
(* the handler up to its first await, and the completion of an awaited     *)
(* call runs the continuation up to the next await or to the reply.        *)
(*                                                                         *)
(* Strings are sequences of chunks.  A chunk is either a run of white      *)
(* space (a member of WhiteSpace) or a run of other characters; the text   *)
(* of a label or of a question is a single chunk, so that two texts are    *)
(* the same JavaScript string exactly when they are the same sequence.     *)
(* The empty string is the empty sequence.                                 *)
(***************************************************************************)
EXTENDS Integers, Sequences, FiniteSets, TLC

(***************************************************************************)
(* Bounds of the model.                                                    *)
(***************************************************************************)
NumSessions == 2
MaxInFlight == 2

Sessions == 1..NumSessions
Workers == 1..MaxInFlight

(***************************************************************************)
(* JavaScript values.                                                      *)
(***************************************************************************)
Undefined == [t |-> "undefined"]
Null == [t |-> "null"]
Str(s) == [t |-> "string", s |-> s]
Num(n) == [t |-> "number", n |-> n]
Obj(o) == [t |-> "object", o |-> o]
Builtin(f) == [t |-> "function", f |-> f]
Bool(b) == [t |-> "boolean", b |-> b]

Truthy(v) ==
    CASE v.t = "undefined" -> FALSE
      [] v.t = "null" -> FALSE
      [] v.t = "string" -> v.s # <<>>
      [] v.t = "number" -> v.n # 0
      [] v.t = "NaN" -> FALSE
      [] v.t = "boolean" -> v.b
      [] OTHER -> TRUE

Or(a, b) == IF Truthy(a) THEN a ELSE b

Get(m, k) == IF k \in DOMAIN m THEN m[k] ELSE Undefined

(***************************************************************************)
(* String.prototype.trim and String.prototype.toLowerCase.                 *)
(***************************************************************************)
WhiteSpace == {" ", "  "}

RECURSIVE TrimStart(_)
TrimStart(s) ==
    IF s # <<>> /\ Head(s) \in WhiteSpace THEN TrimStart(Tail(s)) ELSE s

RECURSIVE TrimEnd(_)
TrimEnd(s) ==
    IF s # <<>> /\ s[Len(s)] \in WhiteSpace
    THEN TrimEnd(SubSeq(s, 1, Len(s) - 1))
    ELSE s

Trim(s) == TrimEnd(TrimStart(s))

LowerChunk(c) ==
    CASE c = "FAQ" -> "faq"
      [] c = "Frequently Asked Questions" -> "frequently asked questions"
      [] c = "Feedback" -> "feedback"
      [] c = "Leave Feedback" -> "leave feedback"
      [] c = "Customer Support" -> "customer support"
      [] c = "How can I contact customer support?" -> "how can i contact customer support?"
      [] c = "What is the average response time?" -> "what is the average response time?"
      [] c = "How do I create an account?" -> "how do i create an account?"
      [] c = "I forgot my password. How can I reset it?" -> "i forgot my password. how can i reset it?"
      [] c = "How do I track my order or request?" -> "how do i track my order or request?"
      [] c = "What payment methods do you accept?" -> "what payment methods do you accept?"
      [] c = "Can I modify or cancel my order?" -> "can i modify or cancel my order?"
      [] c = "Do you offer refunds?" -> "do you offer refunds?"
      [] c = "How can I update my profile or account information?" -> "how can i update my profile or account information?"
      [] c = "Is my personal information secure?" -> "is my personal information secure?"
      [] c = "Do you provide support for technical issues?" -> "do you provide support for technical issues?"
      [] c = "Where can I find tutorials or documentation?" -> "where can i find tutorials or documentation?"
      [] c = "Billing" -> "billing"
      [] OTHER -> c

ToLowerCase(s) == [i \in DOMAIN s |-> LowerChunk(s[i])]

(***************************************************************************)
(* The predefined questions and the lookup tables.                         *)
(***************************************************************************)
FAQ_PREDEFINED ==
    << [question |-> <<"How can I contact customer support?">>,
        answer |-> <<"You can reach our customer support team through live chat, email, or by submitting a ticket on our support page. Our team is available 24/7 to assist you.">>],
       [question |-> <<"What is the average response time?">>,
        answer |-> <<"Our typical response time is within a few minutes via live chat and within 12-24 hours for email or ticket inquiries.">>],
       [question |-> <<"How do I create an account?">>,
        answer |-> <<"To create an account, simply click on the 'Sign Up' button on our website, enter your details, and follow the instructions to verify your email.">>],
       [question |-> <<"I forgot my password. How can I reset it?">>,
        answer |-> <<"Click on the 'Forgot Password' option on the login page, enter your registered email, and follow the secure link sent to you to reset your password.">>],
       [question |-> <<"How do I track my order or request?">>,
        answer |-> <<"You can track your order or service request by logging into your account and viewing the 'Orders' or 'Requests' section in your dashboard.">>],
       [question |-> <<"What payment methods do you accept?">>,
        answer |-> <<"We accept major credit and debit cards, bank transfers, PayPal, and supported digital wallets depending on your region.">>],
       [question |-> <<"Can I modify or cancel my order?">>,
        answer |-> <<"Yes, you can modify or cancel your order within a limited time window from your account dashboard. If the option is unavailable, please contact support for assistance.">>],
       [question |-> <<"Do you offer refunds?">>,
        answer |-> <<"Refunds are available based on our refund policy. If eligible, you can submit a refund request through your account or by contacting customer support.">>],
       [question |-> <<"How can I update my profile or account information?">>,
        answer |-> <<"You can update your personal details by going to the 'Account Settings' section after logging into your account.">>],
       [question |-> <<"Is my personal information secure?">>,
        answer |-> <<"Yes, we use industry-standard encryption and security practices to ensure that your data is protected at all times.">>],
       [question |-> <<"Do you provide support for technical issues?">>,
        answer |-> <<"Yes, our technical support team can help with troubleshooting, installation guidance, configuration issues, and general product assistance.">>],
       [question |-> <<"Where can I find tutorials or documentation?">>,
        answer |-> <<"All guides, tutorials, and product documentation are available in the 'Help Center' section of our website.">>] >>

\* The property names an object literal inherits from Object.prototype that
\* are their own lower-case form: a lookup of one of them in an object
\* literal yields the inherited member, which is truthy.
PrototypeKeys == { <<"constructor">>, <<"__proto__">> }

InheritedMember(key) == Builtin(key)

\* FAQ_ANSWER_MAP[key]
FAQ_ANSWER_MAP(key) ==
    IF \E i \in DOMAIN FAQ_PREDEFINED :
           ToLowerCase(Trim(FAQ_PREDEFINED[i].question)) = key /\ key # <<>>
    THEN LET i == CHOOSE j \in DOMAIN FAQ_PREDEFINED :
                      /\ ToLowerCase(Trim(FAQ_PREDEFINED[j].question)) = key
                      /\ \A k \in DOMAIN FAQ_PREDEFINED :
                            ToLowerCase(Trim(FAQ_PREDEFINED[k].question)) = key => k <= j
         IN Str(FAQ_PREDEFINED[i].answer)
    ELSE IF key \in PrototypeKeys THEN InheritedMember(key)
    ELSE Undefined

\* chipIntentMap[key]
chipIntentMap(key) ==
    CASE key = <<"customer support">> -> Str(<<"Customer Support">>)
      [] key = <<"customer support help">> -> Str(<<"Customer Support">>)
      [] key = <<"faq">> -> Str(<<"FAQ">>)
      [] key = <<"frequently asked questions">> -> Str(<<"FAQ">>)
      [] key = <<"feedback">> -> Str(<<"Feedback">>)
      [] key = <<"leave feedback">> -> Str(<<"Feedback">>)
      [] key \in PrototypeKeys -> InheritedMember(key)
      [] OTHER -> Undefined


(***************************************************************************)
(* Parameter extraction.  Numbers are held in tenths (0.6 is Num(6)).      *)
(***************************************************************************)
NaN == [t |-> "NaN"]

\* String(value) of a sub-field of an object-shaped slot value
StringOf(v) == IF v.t = "string" THEN v.s ELSE <<"[object Object]">>

normalizeString(value) ==
    IF ~Truthy(value) THEN Null
    ELSE IF value.t = "string"
         THEN (IF Trim(value.s) # <<>> THEN Str(Trim(value.s)) ELSE Null)
    ELSE IF value.t = "object"
         THEN (IF Truthy(Get(value.o, "name"))
                  THEN Str(Trim(StringOf(value.o["name"])))
               ELSE IF Truthy(Get(value.o, "original"))
                  THEN Str(Trim(StringOf(value.o["original"])))
               ELSE IF Truthy(Get(value.o, "displayName"))
                  THEN Str(Trim(StringOf(value.o["displayName"])))
               ELSE Null)
    ELSE Null

\* value && value[k]
AndGet(value, k) ==
    IF ~Truthy(value) THEN value
    ELSE IF value.t = "object" THEN Get(value.o, k)
    ELSE Undefined

extractName(parameters) ==
    normalizeString(
        Or(Get(parameters, "name"),
        Or(Get(parameters, "person"),
        Or(AndGet(Get(parameters, "person"), "name"),
        Or(AndGet(Get(parameters, "person"), "original"),
           Get(parameters, "given-name"))))))

extractEmail(parameters) ==
    normalizeString(
        Or(Get(parameters, "email"),
        Or(Get(parameters, "emailAddress"),
           Get(parameters, "email-address"))))

extractUserMessage(parameters, fallbackText) ==
    normalizeString(
        Or(Get(parameters, "problem"),
        Or(Get(parameters, "issue"),
        Or(Get(parameters, "message"),
        Or(Get(parameters, "problem-description"),
        Or(Get(parameters, "customer_message"),
           fallbackText))))))

\* parseFloat of a normalised string (null gives NaN); the numeric prefix
\* of the text decides.
ParseFloat(v) ==
    IF v.t # "string" THEN NaN
    ELSE CASE v.s = <<"4.5">> -> Num(45)
           [] v.s = <<"5">> -> Num(50)
           [] v.s = <<"0">> -> Num(0)
           [] v.s = <<"3 stars">> -> Num(30)
           [] OTHER -> NaN

extractRating(parameters) ==
    LET rating == Or(Get(parameters, "rating"),
                  Or(Get(parameters, "score"),
                     Get(parameters, "feedback-rating")))
    IN  IF rating.t \in {"undefined", "null"} THEN Null
        ELSE IF rating.t = "number" THEN rating
        ELSE LET parsed == ParseFloat(normalizeString(rating))
             IN  IF parsed.t = "NaN" THEN Null ELSE parsed

extractFaqTopic(parameters, fallbackText) ==
    normalizeString(
        Or(Get(parameters, "topic"),
        Or(Get(parameters, "subject"),
        Or(Get(parameters, "faq-topic"),
           fallbackText))))

(***************************************************************************)
(* Reply payloads and fixed texts.                                         *)
(***************************************************************************)
CannedRephrase == <<"I'm sorry, I didn't catch that. Could you please rephrase?">>
CannedClarify == <<"I'm sorry, I still didn't understand. Could you please clarify?">>
ApologyText == <<"Something went wrong while processing your request. Please try again.">>
WelcomeText == <<"Welcome to Our Virtual Assistant. How can I help you today?">>
WelcomeSelectText == <<"Please select a category below to continue:">>
FaqPromptText == <<"Here are some frequently asked questions. You can tap one of them or type your own question.">>
FeedbackPromptText == <<"Please type your feedback and I will share it with our team.">>
FeedbackThanksText == <<"Thanks for your feedback. It really helps us improve our service.">>

NoReply == [kind |-> "none", texts |-> <<>>, chips |-> <<>>, status |-> 0]

\* response.json({ fulfillmentText: text })
FulfillmentText(text) ==
    [kind |-> "fulfillmentText", texts |-> <<text>>, chips |-> <<>>, status |-> 200]

\* response.json({ fulfillmentMessages: [{text: {text: [t]}}, ..., chips] })
FulfillmentMessages(texts, chips) ==
    [kind |-> "fulfillmentMessages", texts |-> texts, chips |-> chips, status |-> 200]

RECURSIVE Join(_, _)
Join(parts, sep) ==
    IF parts = <<>> THEN <<>>
    ELSE IF Len(parts) = 1 THEN parts[1]
    ELSE parts[1] \o sep \o Join(Tail(parts), sep)

\* Mutant: the missing fields are joined with a comma.
buildMissingFieldsResponse_Comma(missing) ==
    FulfillmentMessages(
        << Str(<<"I still need your ">> \o Join(missing, <<", ">>)
               \o <<". Please provide the remaining detail(s) so I can log your request.">>) >>,
        <<>>)

buildMissingFieldsResponse(missing) ==
    FulfillmentMessages(
        << Str(<<"I still need your ">> \o Join(missing, <<" and ">>)
               \o <<". Please provide the remaining detail(s) so I can log your request.">>) >>,
        <<>>)

FaqChips == [i \in DOMAIN FAQ_PREDEFINED |-> FAQ_PREDEFINED[i].question]

WelcomeChips == << <<"Customer Support">>, <<"FAQ">>, <<"Feedback">> >>

GeminiPrompt(faqQuestion) ==
    <<"The user is asking an FAQ about our products or services. Question: ">>
        \o faqQuestion \o <<" Provide a clear, concise answer in simple language.">>

(***************************************************************************)
(* The generative call: what the awaited model call can produce, and what  *)
(* generateFallbackResponse returns for it.                                *)
(***************************************************************************)
GeminiOutcomes ==
    { [k |-> "text", s |-> <<" ", "generated answer", " ">>],
      [k |-> "text", s |-> <<"  ">>],
      [k |-> "absent", s |-> <<>>],
      [k |-> "throw", s |-> <<>>] }

\* Mutant: the generated text is tested before it is trimmed.
generateFallbackResponse_TestUntrimmed(client, outcome) ==
    IF client = "null" THEN CannedRephrase
    ELSE IF outcome.k = "throw" THEN CannedRephrase
    ELSE IF outcome.k = "absent" THEN CannedClarify
    ELSE IF outcome.s # <<>> THEN Trim(outcome.s)
    ELSE CannedClarify

generateFallbackResponse(client, outcome) ==
    IF client = "null" THEN CannedRephrase
    ELSE IF outcome.k = "throw" THEN CannedRephrase
    ELSE IF outcome.k = "absent" THEN CannedClarify
    ELSE IF Trim(outcome.s) # <<>> THEN Trim(outcome.s)
    ELSE CannedClarify

\* parseFloat(process.env.FALLBACK_CONFIDENCE_THRESHOLD || '0.6'), in tenths
fallbackThreshold == 6

(***************************************************************************)
(* Requests.                                                               *)
(***************************************************************************)
SessionId(i) == [t |-> "session", id |-> i]

IntentWelcome == Str(<<"Default Welcome Intent">>)
IntentSupport == Str(<<"Customer Support">>)
IntentFaq == Str(<<"FAQ">>)
IntentFeedback == Str(<<"Feedback">>)
IntentOther == Str(<<"Default Fallback Intent">>)

Intents == {IntentWelcome, IntentSupport, IntentFaq, IntentFeedback, IntentOther}

QueryTexts ==
    { <<>>,
      <<"  ">>,
      <<"faq">>,
      <<" ", "FAQ", " ">>,
      <<"Frequently Asked Questions">>,
      <<"feedback">>,
      <<"Leave Feedback">>,
      <<"Customer Support">>,
      <<"customer support help">>,
      <<"How do I create an account?">>,
      <<"why is the sky blue">>,
      <<"constructor">> }

NoParameters == [k \in {} |-> Undefined]

SupportParameters ==
    { NoParameters,
      [name |-> Str(<<"Ada">>), email |-> Str(<<"ada@example.org">>),
       message |-> Str(<<"my order is late">>)],
      [name |-> Str(<<"Ada">>), message |-> Str(<<"my order is late">>)],
      [name |-> Obj([name |-> Str(<<" ">>)]), email |-> Str(<<"ada@example.org">>)] }

SlotParameters ==
    { [topic |-> Str(<<"Billing">>)],
      [subject |-> Str(<<" ">>), rating |-> Str(<<"4.5">>)],
      [name |-> Str(<<"Ada">>), email |-> Str(<<"ada@example.org">>),
       message |-> Str(<<"my order is late">>)] }

\* intentDetectionConfidence: absent, or a number (in tenths)
Confidences == {Undefined, Num(4), Num(6), Num(9)}

Channel == Str(<<"dialogflow">>)

SessionIds == {SessionId(i) : i \in Sessions}

\* every reported intent with every query text
RoutingRequests ==
    [body : {"ok"}, session : SessionIds, intent : Intents,
     parameters : {NoParameters}, queryText : QueryTexts, confidence : {Undefined}]

\* support turns: every combination of supplied fields and confidence
SupportRequests ==
    [body : {"ok"}, session : SessionIds, intent : {IntentSupport},
     parameters : SupportParameters,
     queryText : { <<>>, <<"  ">>, <<"Customer Support">>, <<"why is the sky blue">> },
     confidence : Confidences]

\* turns that carry slot values into the FAQ, Feedback and fallback flows
SlotRequests ==
    [body : {"ok"}, session : SessionIds,
     intent : {IntentFaq, IntentFeedback, IntentOther},
     parameters : SlotParameters,
     queryText : { <<"faq">>, <<"How do I create an account?">>, <<"why is the sky blue">> },
     confidence : {Undefined, Num(9)}]

\* bodies without queryResult, or without queryResult.intent
Malformed ==
    [body : {"noQueryResult", "noIntent"}, session : SessionIds,
     intent : {Undefined}, parameters : {NoParameters}, queryText : {<<>>},
     confidence : {Undefined}]

Requests == RoutingRequests \cup SupportRequests \cup SlotRequests \cup Malformed

(***************************************************************************)
(* State.                                                                  *)
(***************************************************************************)
VARIABLES
    faqPendingSessions,       \* Set of session ids awaiting an FAQ question
    feedbackPendingSessions,  \* Set of session ids awaiting feedback text
    supabase,                 \* "null" or "client"
    geminiClient,             \* "null" or "client"
    w,                        \* the handler invocations: w[p] is one at a time
    call,                     \* a helper function applied on its own: its
                              \* arguments and the values it returned
    hist                      \* history of the run, kept when hist.on: which
                              \* sessions were last answered with the FAQ
                              \* prompt, and the turns forced to the FAQ flow
                              \* since the last chip click

vars == <<faqPendingSessions, feedbackPendingSessions, supabase, geminiClient, w, call, hist>>

\* prompted: the sessions whose most recently answered request got the FAQ
\* prompt; epoch: the invocations serving a turn that the pending override
\* forced to the FAQ flow and that arrived after the last FAQ chip click of
\* its session; forced[s]: the number of those turns of session s that have
\* submitted an FAQ record
NoHistory ==
    [on |-> FALSE, prompted |-> {}, epoch |-> {}, forced |-> [s \in SessionIds |-> 0]]

NoCall == [fn |-> "none", args |-> <<>>, ret |-> <<>>]

GeminiAwaits == {"cs_low_gemini", "faq_gemini", "fbk_faq_gemini", "fbk_gemini"}

SaveAwaits ==
    {"cs_low_save", "cs_save", "faq_start_save", "faq_save_conv", "faq_save_faq",
     "fb_start_save", "fb_save_conv", "fb_save_fb",
     "fbk_faq_save_conv", "fbk_faq_save_faq", "fbk_fb_save_conv", "fbk_fb_save_fb",
     "fbk_save"}

NoRequest ==
    [body |-> "none", session |-> Undefined, intent |-> Undefined,
     parameters |-> NoParameters, queryText |-> <<>>, confidence |-> Undefined]

Idle ==
    [pc |-> "idle", req |-> NoRequest, intentName |-> Undefined, handler |-> "none",
     hasPendingFaqTop |-> FALSE, hasPendingFeedbackTop |-> FALSE,
     answer |-> Undefined, usedGemini |-> FALSE,
     reply |-> NoReply, nresp |-> 0, recs |-> <<>>, prompts |-> <<>>, threw |-> FALSE]

Init ==
    /\ faqPendingSessions = {}
    /\ feedbackPendingSessions = {}
    /\ supabase \in {"null", "client"}
    /\ geminiClient \in {"null", "client"}
    /\ w = [p \in Workers |-> Idle]
    /\ call = NoCall
    /\ hist = NoHistory

\* response.json(payload)
Respond(h, payload) ==
    [h EXCEPT !.pc = "done", !.reply = payload, !.nresp = @ + 1]

\* Mutant: the top-level catch logs the error and sends nothing.
Catch_NoReply(h) == [h EXCEPT !.threw = TRUE, !.pc = "done"]

\* the top-level catch
Catch(h) ==
    Respond([h EXCEPT !.threw = TRUE], FulfillmentText(Str(ApologyText)))

EmptyObject == [k \in {} |-> Undefined]

\* Mutant: only the empty string counts as blank (no trim).
SanitizedValue_NoTrim(value) ==
    IF value.t = "undefined" THEN Null
    ELSE IF value.t = "string" /\ value.s = <<>> THEN Null
    ELSE value

\* Mutant: an undefined field is stored as the empty string.
SanitizedValue_UndefinedToEmpty(value) ==
    IF value.t = "undefined" THEN Str(<<>>)
    ELSE IF value.t = "string" /\ Trim(value.s) = <<>> THEN Null
    ELSE value

\* the value the reducer of the save functions stores under a key
SanitizedValue(value) ==
    IF value.t = "undefined" THEN Null
    ELSE IF value.t = "string" /\ Trim(value.s) = <<>> THEN Null
    ELSE value

\* entries.reduce((acc, [key, value]) => { acc[key] = ...; return acc }, {})
RECURSIVE ReduceEntries(_, _)
ReduceEntries(record, keys) ==
    IF keys = {} THEN EmptyObject
    ELSE LET key == CHOOSE k \in keys : TRUE
         IN  ReduceEntries(record, keys \ {key}) @@ (key :> SanitizedValue(record[key]))

\* Object.entries(record).reduce(...) of the three save functions
sanitizedRecord(record) == ReduceEntries(record, DOMAIN record)

\* the argument of supabase.from(table).insert(...): nothing when the client
\* is not initialised, else the array of the one sanitized record
InsertedRows(record) ==
    IF supabase = "null" THEN <<>> ELSE <<sanitizedRecord(record)>>

\* a call of saveConversationRecord / saveFaqRecord / saveFeedbackRecord with
\* the record, awaited at program point pc; what the call gives to insert
\* is InsertedRows(record)
Save(h, table, record, pc) ==
    [h EXCEPT !.recs = Append(@, [table |-> table, record |-> record]), !.pc = pc]

\* a call of generateFallbackResponse(prompt), awaited at program point pc
AskGemini(h, prompt, pc) ==
    [h EXCEPT !.prompts = Append(@, prompt), !.pc = pc]

Out(h, faq, fb) == [h |-> h, faq |-> faq, fb |-> fb]

(***************************************************************************)
(* Intent resolution (chip override, then the pending-flow overrides).     *)
(***************************************************************************)
\* Mutant: a chip label that maps to an intent is final, the pending overrides
\* apply only to turns whose text is no chip label.
ResolveIntent_ChipWins(detectedIntent, queryText, hasPendingFaqTop, hasPendingFeedbackTop) ==
    LET normalizedQuery == ToLowerCase(Trim(queryText))
    IN  IF Truthy(chipIntentMap(normalizedQuery)) THEN chipIntentMap(normalizedQuery)
        ELSE IF hasPendingFaqTop /\ detectedIntent # IntentFaq THEN IntentFaq
        ELSE IF hasPendingFeedbackTop /\ detectedIntent # IntentFeedback THEN IntentFeedback
        ELSE detectedIntent

\* Mutant: the pending-FAQ override is missing.
ResolveIntent_NoFaqOverride(detectedIntent, queryText, hasPendingFaqTop, hasPendingFeedbackTop) ==
    LET normalizedQuery == ToLowerCase(Trim(queryText))
        chipIntent == IF Truthy(chipIntentMap(normalizedQuery))
                      THEN chipIntentMap(normalizedQuery)
                      ELSE detectedIntent
    IN  IF hasPendingFeedbackTop /\ chipIntent # IntentFeedback THEN IntentFeedback
        ELSE chipIntent

\* Mutant: the pending-Feedback override is missing.
ResolveIntent_NoFeedbackOverride(detectedIntent, queryText, hasPendingFaqTop, hasPendingFeedbackTop) ==
    LET normalizedQuery == ToLowerCase(Trim(queryText))
        chipIntent == IF Truthy(chipIntentMap(normalizedQuery))
                      THEN chipIntentMap(normalizedQuery)
                      ELSE detectedIntent
    IN  IF hasPendingFaqTop /\ chipIntent # IntentFaq THEN IntentFaq ELSE chipIntent

ResolveIntent(detectedIntent, queryText, hasPendingFaqTop, hasPendingFeedbackTop) ==
    LET normalizedQuery == ToLowerCase(Trim(queryText))
        chipIntent == IF Truthy(chipIntentMap(normalizedQuery))
                      THEN chipIntentMap(normalizedQuery)
                      ELSE detectedIntent
    IN  IF hasPendingFaqTop /\ chipIntent # IntentFaq THEN IntentFaq
        ELSE IF hasPendingFeedbackTop /\ chipIntent # IntentFeedback THEN IntentFeedback
        ELSE chipIntent

(***************************************************************************)
(* The flow handlers, each up to its first await.  h is the invocation,    *)
(* faq and fb the two pending sets; the result is the three of them.       *)
(***************************************************************************)
HandleWelcome(h, faq, fb) ==
    Out(Respond([h EXCEPT !.handler = "Welcome"],
                FulfillmentMessages(<<Str(WelcomeText), Str(WelcomeSelectText)>>,
                                    WelcomeChips)),
        faq, fb)

IsLowConfidence(intentConfidence) ==
    intentConfidence.t = "number" /\ intentConfidence.n < fallbackThreshold

\* queryText || 'Hello'
QueryOrHello(queryText) == IF queryText # <<>> THEN queryText ELSE <<"Hello">>

MissingFields(userName, userEmail, userMessage) ==
    (IF ~Truthy(userName) THEN << <<"name">> >> ELSE <<>>)
        \o (IF ~Truthy(userEmail) THEN << <<"email">> >> ELSE <<>>)
        \o (IF ~Truthy(userMessage) THEN << <<"message">> >> ELSE <<>>)

SupportReplyText(userName, userEmail) ==
    <<"Thanks ">> \o userName.s
        \o <<"! I have logged your request and our team will reach out at ">>
        \o userEmail.s \o <<" very soon.">>

HandleCustomerSupport(h0, faq, fb) ==
    LET h == [h0 EXCEPT !.handler = "Customer Support"]
        req == h.req
        userName == normalizeString(Get(req.parameters, "name"))
        userEmail == normalizeString(Get(req.parameters, "email"))
        userMessage == normalizeString(Or(Get(req.parameters, "message"), Str(req.queryText)))
        missingFields == MissingFields(userName, userEmail, userMessage)
    IN  IF IsLowConfidence(req.confidence)
        THEN Out(AskGemini(h, QueryOrHello(req.queryText), "cs_low_gemini"), faq, fb)
        ELSE IF Len(missingFields) > 0
        THEN Out(Respond(h, buildMissingFieldsResponse(missingFields)), faq, fb)
        ELSE Out(Save([h EXCEPT !.answer = Str(SupportReplyText(userName, userEmail))],
                      "conversations",
                      [session_id |-> req.session,
                       intent_name |-> h.intentName,
                       user_name |-> userName,
                       user_email |-> userEmail,
                       user_message |-> userMessage,
                       channel |-> Channel,
                       response_text |-> Str(SupportReplyText(userName, userEmail)),
                       intent_confidence |-> req.confidence,
                       used_gemini |-> Bool(FALSE),
                       record_type |-> Str(<<"support">>)],
                      "cs_save"),
                 faq, fb)

\* the record of the low-confidence path, saved once the fallback text is known
LowConfidenceRecord(h, fallbackText) ==
    [session_id |-> h.req.session,
     intent_name |-> h.intentName,
     user_message |-> Str(h.req.queryText),
     channel |-> Channel,
     response_text |-> fallbackText,
     intent_confidence |-> h.req.confidence,
     used_gemini |-> Bool(TRUE),
     fallback_reason |-> Str(<<"low_confidence">>)]

IsFaqChipClick(queryText) ==
    ToLowerCase(Trim(queryText)) \in { <<"faq">>, <<"frequently asked questions">> }

IsFeedbackChipClick(queryText) ==
    ToLowerCase(Trim(queryText)) \in { <<"feedback">>, <<"leave feedback">> }

\* extractFaqTopic(parameters, queryText) || queryText
FaqQuestion(req) ==
    Or(extractFaqTopic(req.parameters, Str(req.queryText)), Str(req.queryText))

\* FAQ_ANSWER_MAP[(faqQuestion || '').trim().toLowerCase()]
PredefinedAnswer(faqQuestion) ==
    FAQ_ANSWER_MAP(ToLowerCase(Trim(faqQuestion.s)))

FaqConversationRecord(h, faqAnswer, usedGeminiForFaq) ==
    [session_id |-> h.req.session,
     intent_name |-> h.intentName,
     user_name |-> extractName(h.req.parameters),
     user_email |-> extractEmail(h.req.parameters),
     user_message |-> FaqQuestion(h.req),
     channel |-> Channel,
     response_text |-> faqAnswer,
     record_type |-> Str(<<"faq">>),
     intent_confidence |-> h.req.confidence,
     used_gemini |-> Bool(usedGeminiForFaq)]

\* Mutant: the FAQ record takes the raw query text as its question, as the
\* follow-up branch of the fallback handler does.
FaqRecord_RawQuery(h) ==
    [session_id |-> h.req.session,
     user_name |-> extractName(h.req.parameters),
     user_email |-> extractEmail(h.req.parameters),
     question_text |-> Str(h.req.queryText),
     answer_text |-> h.answer,
     channel |-> Channel,
     intent_name |-> h.intentName,
     intent_confidence |-> h.req.confidence,
     used_gemini |-> Bool(h.usedGemini)]

FaqRecord(h) ==
    [session_id |-> h.req.session,
     user_name |-> extractName(h.req.parameters),
     user_email |-> extractEmail(h.req.parameters),
     question_text |-> FaqQuestion(h.req),
     answer_text |-> h.answer,
     channel |-> Channel,
     intent_name |-> h.intentName,
     intent_confidence |-> h.req.confidence,
     used_gemini |-> Bool(h.usedGemini)]

\* Mutant: the answering step leaves the pending marker in place.
FaqAnswered_NoDelete(h, faqAnswer, usedGeminiForFaq, faq, fb) ==
    Out(Save([h EXCEPT !.answer = faqAnswer, !.usedGemini = usedGeminiForFaq],
             "conversations",
             FaqConversationRecord(h, faqAnswer, usedGeminiForFaq),
             "faq_save_conv"),
        faq, fb)

\* lines 494-515 once faqAnswer is known: clear the pending marker and save
\* the conversation record
FaqAnswered(h, faqAnswer, usedGeminiForFaq, faq, fb) ==
    Out(Save([h EXCEPT !.answer = faqAnswer, !.usedGemini = usedGeminiForFaq],
             "conversations",
             FaqConversationRecord(h, faqAnswer, usedGeminiForFaq),
             "faq_save_conv"),
        faq \ {h.req.session}, fb)

\* Mutant: the session is marked pending on entry to the FAQ handler, before
\* the text is compared with the trigger labels.
HandleFaq_AddOnEntry(h0, faq, fb) ==
    LET h == [h0 EXCEPT !.handler = "FAQ"]
        req == h.req
    IN  IF IsFaqChipClick(req.queryText)
        THEN Out(Save(h, "conversations",
                      [session_id |-> req.session,
                       intent_name |-> h.intentName,
                       user_message |-> Str(req.queryText),
                       channel |-> Channel,
                       response_text |-> Str(FaqPromptText),
                       record_type |-> Str(<<"faq_start">>),
                       intent_confidence |-> req.confidence,
                       used_gemini |-> Bool(FALSE)],
                      "faq_start_save"),
                 faq \cup {req.session}, fb)
        ELSE IF Truthy(PredefinedAnswer(FaqQuestion(req)))
        THEN FaqAnswered(h, PredefinedAnswer(FaqQuestion(req)), FALSE, faq, fb)
        ELSE Out(AskGemini(h, GeminiPrompt(FaqQuestion(req).s), "faq_gemini"),
                 faq \cup {req.session}, fb)

HandleFaq(h0, faq, fb) ==
    LET h == [h0 EXCEPT !.handler = "FAQ"]
        req == h.req
    IN  IF IsFaqChipClick(req.queryText)
        THEN Out(Save(h, "conversations",
                      [session_id |-> req.session,
                       intent_name |-> h.intentName,
                       user_message |-> Str(req.queryText),
                       channel |-> Channel,
                       response_text |-> Str(FaqPromptText),
                       record_type |-> Str(<<"faq_start">>),
                       intent_confidence |-> req.confidence,
                       used_gemini |-> Bool(FALSE)],
                      "faq_start_save"),
                 faq \cup {req.session}, fb)
        ELSE IF Truthy(PredefinedAnswer(FaqQuestion(req)))
        THEN FaqAnswered(h, PredefinedAnswer(FaqQuestion(req)), FALSE, faq, fb)
        ELSE Out(AskGemini(h, GeminiPrompt(FaqQuestion(req).s), "faq_gemini"), faq, fb)

FeedbackConversationRecord(h, intentName, tagged) ==
    LET fields ==
            [session_id |-> h.req.session,
             intent_name |-> intentName,
             user_name |-> extractName(h.req.parameters),
             user_email |-> extractEmail(h.req.parameters),
             user_message |-> extractUserMessage(h.req.parameters, Str(h.req.queryText)),
             channel |-> Channel,
             response_text |-> Str(FeedbackThanksText),
             feedback_rating |-> extractRating(h.req.parameters),
             record_type |-> Str(<<"feedback">>),
             intent_confidence |-> h.req.confidence,
             used_gemini |-> Bool(FALSE)]
    IN  IF tagged THEN fields @@ [fallback_reason |-> Str(<<"feedback_followup">>)] ELSE fields

FeedbackRecord(h, intentName) ==
    [session_id |-> h.req.session,
     user_name |-> extractName(h.req.parameters),
     user_email |-> extractEmail(h.req.parameters),
     feedback_text |-> extractUserMessage(h.req.parameters, Str(h.req.queryText)),
     feedback_rating |-> extractRating(h.req.parameters),
     channel |-> Channel,
     intent_name |-> intentName,
     intent_confidence |-> h.req.confidence,
     used_gemini |-> Bool(FALSE)]

HandleFeedback(h0, faq, fb) ==
    LET h == [h0 EXCEPT !.handler = "Feedback"]
        req == h.req
    IN  IF IsFeedbackChipClick(req.queryText)
        THEN Out(Save(h, "conversations",
                      [session_id |-> req.session,
                       intent_name |-> h.intentName,
                       user_message |-> Str(req.queryText),
                       channel |-> Channel,
                       response_text |-> Str(FeedbackPromptText),
                       record_type |-> Str(<<"feedback_start">>),
                       intent_confidence |-> req.confidence,
                       used_gemini |-> Bool(FALSE)],
                      "fb_start_save"),
                 faq, fb \cup {req.session})
        ELSE Out(Save([h EXCEPT !.answer = Str(FeedbackThanksText)],
                      "conversations",
                      FeedbackConversationRecord(h, h.intentName, FALSE),
                      "fb_save_conv"),
                 faq, fb \ {req.session})

\* the conversation record of the FAQ follow-up branch of the fallback handler
FollowupFaqConversationRecord(h, faqAnswer, usedGeminiForFaq) ==
    [session_id |-> h.req.session,
     intent_name |-> IntentFaq,
     user_name |-> extractName(h.req.parameters),
     user_email |-> extractEmail(h.req.parameters),
     user_message |-> Str(h.req.queryText),
     channel |-> Channel,
     response_text |-> faqAnswer,
     record_type |-> Str(<<"faq">>),
     intent_confidence |-> h.req.confidence,
     used_gemini |-> Bool(usedGeminiForFaq),
     fallback_reason |-> IF usedGeminiForFaq THEN Str(<<"faq_followup">>)
                         ELSE Str(<<"faq_followup_predefined">>)]

FollowupFaqRecord(h) ==
    [session_id |-> h.req.session,
     user_name |-> extractName(h.req.parameters),
     user_email |-> extractEmail(h.req.parameters),
     question_text |-> Str(h.req.queryText),
     answer_text |-> h.answer,
     channel |-> Channel,
     intent_name |-> IntentFaq,
     intent_confidence |-> h.req.confidence,
     used_gemini |-> Bool(h.usedGemini)]

FollowupFaqAnswered(h, faqAnswer, usedGeminiForFaq, faq, fb) ==
    Out(Save([h EXCEPT !.answer = faqAnswer, !.usedGemini = usedGeminiForFaq],
             "conversations",
             FollowupFaqConversationRecord(h, faqAnswer, usedGeminiForFaq),
             "fbk_faq_save_conv"),
        faq \ {h.req.session}, fb)

UnknownIntentRecord(h, fallbackText) ==
    [session_id |-> h.req.session,
     intent_name |-> h.intentName,
     user_message |-> Str(h.req.queryText),
     channel |-> Channel,
     response_text |-> fallbackText,
     intent_confidence |-> h.req.confidence,
     used_gemini |-> Bool(TRUE),
     fallback_reason |-> Str(<<"unknown_intent">>)]

\* the final else branch: the pending follow-ups, then the generative fallback
HandleFallback(h0, faq, fb) ==
    LET h == [h0 EXCEPT !.handler = "Fallback"]
        req == h.req
        hasPendingFaq == req.session \in faq
        hasPendingFeedback == req.session \in fb
        predefinedAnswer == FAQ_ANSWER_MAP(ToLowerCase(Trim(req.queryText)))
    IN  IF hasPendingFaq
        THEN IF Truthy(predefinedAnswer)
             THEN FollowupFaqAnswered(h, predefinedAnswer, FALSE, faq, fb)
             ELSE Out(AskGemini(h, GeminiPrompt(req.queryText), "fbk_faq_gemini"), faq, fb)
        ELSE IF hasPendingFeedback
        THEN Out(Save([h EXCEPT !.answer = Str(FeedbackThanksText)],
                      "conversations",
                      FeedbackConversationRecord(h, IntentFeedback, TRUE),
                      "fbk_fb_save_conv"),
                 faq, fb \ {req.session})
        ELSE Out(AskGemini(h, QueryOrHello(req.queryText), "fbk_gemini"), faq, fb)

Dispatch(h, faq, fb) ==
    IF h.intentName = IntentWelcome THEN HandleWelcome(h, faq, fb)
    ELSE IF h.intentName = IntentSupport THEN HandleCustomerSupport(h, faq, fb)
    ELSE IF h.intentName = IntentFaq THEN HandleFaq(h, faq, fb)
    ELSE IF h.intentName = IntentFeedback THEN HandleFeedback(h, faq, fb)
    ELSE HandleFallback(h, faq, fb)

(***************************************************************************)
(* The history a step of invocation p leaves, read from w[p] before and    *)
(* after the step.                                                         *)
(***************************************************************************)
\* the turn was routed to the FAQ flow by the pending-FAQ override of lines
\* 336-338: the session was pending and the intent after the chip override
\* was not FAQ
ForcedToFaq(h) ==
    /\ h.req.body = "ok"
    /\ h.hasPendingFaqTop
    /\ h.handler = "FAQ"
    /\ ResolveIntent(h.req.intent, h.req.queryText, FALSE, FALSE) # IntentFaq

\* the turn is the prompting step of the FAQ flow (lines 449-481)
FaqChipClickTurn(h) ==
    h.req.body = "ok" /\ h.handler = "FAQ" /\ IsFaqChipClick(h.req.queryText)

Observe(p) ==
    LET old == w[p]
        new == w'[p]
        arrives == old.pc = "idle" /\ new.pc # "idle"
        returns == new.pc = "idle"
        s == IF returns THEN old.req.session ELSE new.req.session
        answers == new.nresp = 1 /\ old.nresp = 0
        submitsFaqRecord ==
            /\ Len(new.recs) > Len(old.recs)
            /\ new.recs[Len(new.recs)].table = "faqs"
        epochAtArrival ==
            IF FaqChipClickTurn(new)
            THEN { q \in hist.epoch : q # p /\ w[q].req.session # s }
            ELSE IF ForcedToFaq(new) THEN hist.epoch \cup {p}
            ELSE hist.epoch \ {p}
    IN  IF ~hist.on THEN hist ELSE
        [on |-> TRUE,
         prompted |->
            IF answers
            THEN (IF new.reply = FulfillmentMessages(<<Str(FaqPromptText)>>, FaqChips)
                  THEN hist.prompted \cup {s}
                  ELSE hist.prompted \ {s})
            ELSE hist.prompted,
         epoch |->
            IF arrives THEN epochAtArrival
            ELSE IF returns THEN hist.epoch \ {p}
            ELSE hist.epoch,
         forced |->
            IF arrives /\ FaqChipClickTurn(new) THEN [hist.forced EXCEPT ![s] = 0]
            ELSE IF submitsFaqRecord /\ p \in hist.epoch
                 THEN [hist.forced EXCEPT ![s] = @ + 1]
            ELSE hist.forced]

(***************************************************************************)
(* Actions.                                                                *)
(***************************************************************************)
\* A request arrives and app.post('/dialogflow') runs up to its first await.
Arrive(p, req) ==
    /\ w[p].pc = "idle"
    /\ LET hasPendingFaqTop == req.session \in faqPendingSessions
           hasPendingFeedbackTop == req.session \in feedbackPendingSessions
           h == [Idle EXCEPT
                   !.pc = "running", !.req = req,
                   !.hasPendingFaqTop = hasPendingFaqTop,
                   !.hasPendingFeedbackTop = hasPendingFeedbackTop,
                   !.intentName =
                       IF req.body = "ok"
                       THEN ResolveIntent(req.intent, req.queryText,
                                          hasPendingFaqTop, hasPendingFeedbackTop)
                       ELSE Undefined]
           out == IF req.body # "ok"
                  THEN Out(Catch(h), faqPendingSessions, feedbackPendingSessions)
                  ELSE Dispatch(h, faqPendingSessions, feedbackPendingSessions)
       IN  /\ w' = [w EXCEPT ![p] = out.h]
           /\ faqPendingSessions' = out.faq
           /\ feedbackPendingSessions' = out.fb
    /\ hist' = Observe(p)
    /\ UNCHANGED <<supabase, geminiClient, call>>

\* The awaited generateFallbackResponse call of invocation p completes.
GeminiReturn(p, outcome) ==
    /\ w[p].pc \in GeminiAwaits
    /\ geminiClient = "null" => outcome.k = "absent"
    /\ LET h == w[p]
           text == Str(generateFallbackResponse(geminiClient, outcome))
           out ==
             CASE h.pc = "cs_low_gemini" ->
                    Out(Save([h EXCEPT !.answer = text], "conversations",
                             LowConfidenceRecord(h, text), "cs_low_save"),
                        faqPendingSessions, feedbackPendingSessions)
               [] h.pc = "faq_gemini" ->
                    FaqAnswered(h, text, TRUE, faqPendingSessions, feedbackPendingSessions)
               [] h.pc = "fbk_faq_gemini" ->
                    FollowupFaqAnswered(h, text, TRUE,
                                        faqPendingSessions, feedbackPendingSessions)
               [] h.pc = "fbk_gemini" ->
                    Out(Save([h EXCEPT !.answer = text], "conversations",
                             UnknownIntentRecord(h, text), "fbk_save"),
                        faqPendingSessions, feedbackPendingSessions)
       IN  /\ w' = [w EXCEPT ![p] = out.h]
           /\ faqPendingSessions' = out.faq
           /\ feedbackPendingSessions' = out.fb
    /\ hist' = Observe(p)
    /\ UNCHANGED <<supabase, geminiClient, call>>

DbOutcomes == {"ok", "error", "throw"}

\* What follows the awaited save at program point h.pc when it returns.
AfterSave(h) ==
    CASE h.pc = "cs_low_save" -> Respond(h, FulfillmentText(h.answer))
      [] h.pc = "cs_save" -> Respond(h, FulfillmentMessages(<<h.answer>>, <<>>))
      [] h.pc = "faq_start_save" ->
            Respond(h, FulfillmentMessages(<<Str(FaqPromptText)>>, FaqChips))
      [] h.pc = "faq_save_conv" -> Save(h, "faqs", FaqRecord(h), "faq_save_faq")
      [] h.pc = "faq_save_faq" -> Respond(h, FulfillmentMessages(<<h.answer>>, <<>>))
      [] h.pc = "fb_start_save" ->
            Respond(h, FulfillmentMessages(<<Str(FeedbackPromptText)>>, <<>>))
      [] h.pc = "fb_save_conv" ->
            Save(h, "feedbacks", FeedbackRecord(h, h.intentName), "fb_save_fb")
      [] h.pc = "fb_save_fb" -> Respond(h, FulfillmentMessages(<<h.answer>>, <<>>))
      [] h.pc = "fbk_faq_save_conv" ->
            Save(h, "faqs", FollowupFaqRecord(h), "fbk_faq_save_faq")
      [] h.pc = "fbk_faq_save_faq" -> Respond(h, FulfillmentMessages(<<h.answer>>, <<>>))
      [] h.pc = "fbk_fb_save_conv" ->
            Save(h, "feedbacks", FeedbackRecord(h, IntentFeedback), "fbk_fb_save_fb")
      [] h.pc = "fbk_fb_save_fb" -> Respond(h, FulfillmentMessages(<<h.answer>>, <<>>))
      [] h.pc = "fbk_save" -> Respond(h, FulfillmentText(h.answer))

\* The awaited save of invocation p completes: the insert was skipped (no
\* client), returned data, returned an error, or its promise rejected.
SaveReturn(p, outcome) ==
    /\ w[p].pc \in SaveAwaits
    /\ supabase = "null" => outcome = "ok"
    /\ w' = [w EXCEPT ![p] = IF supabase # "null" /\ outcome = "throw"
                             THEN Catch(w[p])
                             ELSE AfterSave(w[p])]
    /\ hist' = Observe(p)
    /\ UNCHANGED <<faqPendingSessions, feedbackPendingSessions, supabase, geminiClient, call>>

\* The invocation p returns after its response.json call.
Return(p) ==
    /\ w[p].pc = "done"
    /\ w' = [w EXCEPT ![p] = Idle]
    /\ hist' = Observe(p)
    /\ UNCHANGED <<faqPendingSessions, feedbackPendingSessions, supabase, geminiClient, call>>

\* Requests handled one at a time, over the full range of request bodies.
Next ==
    \/ \E req \in Requests : Arrive(1, req)
    \/ Return(1)
    \/ \E outcome \in GeminiOutcomes : GeminiReturn(1, outcome)
    \/ \E outcome \in DbOutcomes : SaveReturn(1, outcome)

Spec == Init /\ [][Next]_vars

\* The turns of one session, handled one at a time, where every awaited call
\* settles: the event loop then runs its continuation.
SingleSessionRequests == { req \in Requests : req.session = SessionId(1) }

NextFair ==
    \/ \E req \in SingleSessionRequests : Arrive(1, req)
    \/ Return(1)
    \/ \E outcome \in GeminiOutcomes : GeminiReturn(1, outcome)
    \/ \E outcome \in DbOutcomes : SaveReturn(1, outcome)

FairSpec ==
    /\ Init
    /\ [][NextFair]_vars
    /\ WF_vars(\E outcome \in GeminiOutcomes : GeminiReturn(1, outcome))
    /\ WF_vars(\E outcome \in DbOutcomes : SaveReturn(1, outcome))

(***************************************************************************)
(* Interleaved handling: up to MaxInFlight invocations at a time on one    *)
(* session, switching at the awaits, with both clients configured.         *)
(***************************************************************************)
ConcRequests ==
    [body : {"ok"}, session : {SessionId(1)}, intent : {IntentOther},
     parameters : {NoParameters},
     queryText : { <<"faq">>, <<"feedback">>, <<"why is the sky blue">> },
     confidence : {Undefined}]

ConcGeminiOutcomes == { o \in GeminiOutcomes : o.k \in {"text", "throw"} }

ConcDbOutcomes == {"ok", "throw"}

InitConc ==
    /\ faqPendingSessions = {}
    /\ feedbackPendingSessions = {}
    /\ supabase = "client"
    /\ geminiClient = "client"
    /\ w = [p \in Workers |-> Idle]
    /\ call = NoCall
    /\ hist = NoHistory

NextConc ==
    \E p \in Workers :
        \/ \E req \in ConcRequests : Arrive(p, req)
        \/ Return(p)
        \/ \E outcome \in ConcGeminiOutcomes : GeminiReturn(p, outcome)
        \/ \E outcome \in ConcDbOutcomes : SaveReturn(p, outcome)

SpecConc == InitConc /\ [][NextConc]_vars

(***************************************************************************)
(* Interleaved handling of the FAQ flow of one session, with the history   *)
(* of the run kept: chip clicks and free-text questions.                   *)
(***************************************************************************)
RaceRequests == { req \in ConcRequests : req.queryText # <<"feedback">> }

InitRace ==
    /\ faqPendingSessions = {}
    /\ feedbackPendingSessions = {}
    /\ supabase = "client"
    /\ geminiClient = "client"
    /\ w = [p \in Workers |-> Idle]
    /\ call = NoCall
    /\ hist = [NoHistory EXCEPT !.on = TRUE]

NextRace ==
    \E p \in Workers :
        \/ \E req \in RaceRequests : Arrive(p, req)
        \/ Return(p)
        \/ \E outcome \in ConcGeminiOutcomes : GeminiReturn(p, outcome)
        \/ \E outcome \in ConcDbOutcomes : SaveReturn(p, outcome)

SpecRace == InitRace /\ [][NextRace]_vars

(***************************************************************************)
(* The helper functions applied on their own, to arguments drawn from      *)
(* bounded sets.  A missing property of an object reads as undefined, so   *)
(* a parameters object is a function from the keys the helper reads to     *)
(* values, undefined standing for a missing key.                           *)
(***************************************************************************)
\* texts the model call can generate
GeneratedTexts ==
    LET Chunks == {" ", "  ", "generated answer", "ok"}
    IN  {<<>>} \cup {<<a>> : a \in Chunks}
               \cup {<<a, b>> : a \in Chunks, b \in Chunks}
               \cup {<<a, b, c>> : a \in Chunks, b \in {"generated answer"}, c \in Chunks}

AllGeminiOutcomes ==
    GeminiOutcomes \cup {[k |-> "text", s |-> t] : t \in GeneratedTexts}

RecordValues ==
    { Undefined, Null, Str(<<>>), Str(<<"  ">>), Str(<<" ", "x">>),
      Num(0), Bool(FALSE), SessionId(1) }

RecordInputs == [{"a", "b", "c"} -> RecordValues]

NameValues ==
    { Undefined, Str(<<" ">>), Str(<<" ", "Ada", " ">>),
      Obj([name |-> Str(<<" ">>)]), Obj([name |-> Str(<<"Bob ">>)]) }

PersonValues ==
    { Undefined, Null, Obj(EmptyObject),
      Obj([name |-> Str(<<"Bob ">>)]),
      Obj([original |-> Str(<<" ", "Bo">>)]),
      Obj([name |-> Str(<<>>), original |-> Str(<<"Bo">>)]),
      Obj([name |-> Str(<<"Bob">>), original |-> Str(<<"Bo">>)]),
      Obj([displayName |-> Str(<<"Robert">>)]) }

GivenNameValues == { Undefined, Str(<<>>), Str(<<"Grace", " ">>) }

NameInputs ==
    { [name |-> n, person |-> q, given |-> g] :
        n \in NameValues, q \in PersonValues, g \in GivenNameValues }

\* the parameters object of a NameInputs member
NameParameters(in) ==
    [k \in {"name", "person", "given-name"} |->
        CASE k = "name" -> in.name
          [] k = "person" -> in.person
          [] k = "given-name" -> in.given]

TextValues ==
    { Undefined, Null, Str(<<>>), Str(<<"  ">>), Str(<<" ", "late order">>),
      Obj([original |-> Str(<<" ">>)]) }

EmailInputs == [{"email", "emailAddress", "email-address"} -> TextValues]

FallbackTexts == { Undefined, Str(<<>>), Str(<<" ">>), Str(<<"why is the sky blue">>) }

MessageInputs ==
    [{"problem", "issue", "message", "problem-description", "customer_message"}
        -> {Undefined, Str(<<"  ">>), Str(<<" ", "late order">>)}]

TopicInputs == [{"topic", "subject", "faq-topic"} -> TextValues]

RatingValues ==
    { Undefined, Null, Num(0), Num(45), Str(<<>>), Str(<<"0">>),
      Str(<<" ", "4.5">>), Str(<<"great">>) }

RatingInputs == [{"rating", "score", "feedback-rating"} -> RatingValues]

Calls ==
    [fn : {"generateFallbackResponse"}, args : {<<o>> : o \in AllGeminiOutcomes}, ret : {<<>>}]
    \cup [fn : {"sanitizedRecord"}, args : {<<r>> : r \in RecordInputs}, ret : {<<>>}]
    \cup [fn : {"extractName"}, args : {<<NameParameters(in)>> : in \in NameInputs}, ret : {<<>>}]
    \cup [fn : {"extractEmail"}, args : {<<q>> : q \in EmailInputs}, ret : {<<>>}]
    \cup [fn : {"extractUserMessage"},
          args : {<<q, t>> : q \in MessageInputs, t \in FallbackTexts}, ret : {<<>>}]
    \cup [fn : {"extractFaqTopic"},
          args : {<<q, t>> : q \in TopicInputs, t \in FallbackTexts}, ret : {<<>>}]
    \cup [fn : {"extractRating"}, args : {<<q>> : q \in RatingInputs}, ret : {<<>>}]

InitPure ==
    /\ faqPendingSessions = {}
    /\ feedbackPendingSessions = {}
    /\ supabase = "client"
    /\ geminiClient \in {"null", "client"}
    /\ w = [p \in Workers |-> Idle]
    /\ call \in Calls
    /\ hist = NoHistory
    /\ geminiClient = "null" => call.fn = "generateFallbackResponse"

Returns(value) ==
    /\ call' = [call EXCEPT !.ret = Append(@, value)]
    /\ UNCHANGED <<faqPendingSessions, feedbackPendingSessions, supabase, geminiClient, w, hist>>

CallGenerateFallbackResponse ==
    /\ call.fn = "generateFallbackResponse" /\ call.ret = <<>>
    /\ Returns(Str(generateFallbackResponse(geminiClient, call.args[1])))

\* the sanitizer applied to the record
CallSanitizedRecord ==
    /\ call.fn = "sanitizedRecord" /\ call.ret = <<>>
    /\ Returns(sanitizedRecord(call.args[1]))

\* the sanitizer applied to the record it returned
CallSanitizedRecordAgain ==
    /\ call.fn = "sanitizedRecord" /\ Len(call.ret) = 1
    /\ Returns(sanitizedRecord(call.ret[1]))

CallExtractName ==
    /\ call.fn = "extractName" /\ call.ret = <<>>
    /\ Returns(extractName(call.args[1]))

CallExtractEmail ==
    /\ call.fn = "extractEmail" /\ call.ret = <<>>
    /\ Returns(extractEmail(call.args[1]))

CallExtractUserMessage ==
    /\ call.fn = "extractUserMessage" /\ call.ret = <<>>
    /\ Returns(extractUserMessage(call.args[1], call.args[2]))

CallExtractFaqTopic ==
    /\ call.fn = "extractFaqTopic" /\ call.ret = <<>>
    /\ Returns(extractFaqTopic(call.args[1], call.args[2]))

CallExtractRating ==
    /\ call.fn = "extractRating" /\ call.ret = <<>>
    /\ Returns(extractRating(call.args[1]))

NextPure ==
    \/ CallGenerateFallbackResponse
    \/ CallSanitizedRecord
    \/ CallSanitizedRecordAgain
    \/ CallExtractName
    \/ CallExtractEmail
    \/ CallExtractUserMessage
    \/ CallExtractFaqTopic
    \/ CallExtractRating

SpecPure == InitPure /\ [][NextPure]_vars

(***************************************************************************)
(* Properties.                                                             *)
(***************************************************************************)
Started(p) == w[p].pc # "idle" /\ w[p].req.body = "ok"

Done(p) == w[p].pc = "done" /\ w[p].req.body = "ok"

InFlight(p) == w[p].pc \notin {"idle", "done"}

\* C1: a turn that arrives while its session is in the pending-FAQ set is
\* handled by the FAQ flow handler, whatever the reported intent and whatever
\* the query text.
C1_PendingFaqRoutesToFaq ==
    \A p \in Workers :
        (Started(p) /\ w[p].hasPendingFaqTop) => w[p].handler = "FAQ"

\* C1 witness: a pending-FAQ turn whose text is the Feedback chip label and
\* whose reported intent is Customer Support has been handled by the FAQ flow.
C1_Witness ==
    \E p \in Workers :
        /\ Done(p) /\ w[p].hasPendingFaqTop
        /\ w[p].req.queryText = <<"feedback">>
        /\ w[p].req.intent = IntentSupport
        /\ w[p].handler = "FAQ"

\* C2: a turn that arrives while its session is in the pending-Feedback set
\* is handled by the Feedback flow handler, whatever the reported intent and
\* whatever the query text.
C2_PendingFeedbackRoutesToFeedback ==
    \A p \in Workers :
        (Started(p) /\ w[p].hasPendingFeedbackTop) => w[p].handler = "Feedback"

\* C2 witness: a pending-Feedback turn whose text is "faq" has been handled
\* by the Feedback flow.
C2_Witness ==
    \E p \in Workers :
        /\ Done(p) /\ w[p].hasPendingFeedbackTop
        /\ w[p].req.queryText = <<"faq">>
        /\ w[p].handler = "Feedback"

\* C3: no session id is in both pending sets, in any state of any
\* interleaving of the invocations.
C3_PendingSetsDisjoint ==
    faqPendingSessions \cap feedbackPendingSessions = {}

\* C3 witness: two invocations of one session are in flight together, one of
\* them in the FAQ flow, while the session is pending Feedback.
C3_Witness ==
    \E p, q \in Workers :
        /\ p # q /\ InFlight(p) /\ InFlight(q)
        /\ w[p].req.session = w[q].req.session
        /\ w[p].handler = "FAQ"
        /\ w[p].req.session \in feedbackPendingSessions

Normalized(text) == ToLowerCase(Trim(text))

PredefinedKeys ==
    { Normalized(FAQ_PREDEFINED[i].question) : i \in DOMAIN FAQ_PREDEFINED }

PredefinedAnswerOf(key) ==
    Str(FAQ_PREDEFINED[CHOOSE i \in DOMAIN FAQ_PREDEFINED :
                           Normalized(FAQ_PREDEFINED[i].question) = key].answer)

NeitherPending(p) == ~w[p].hasPendingFaqTop /\ ~w[p].hasPendingFeedbackTop

\* C4: a turn of a session pending in neither flow whose text is an FAQ
\* trigger label is answered with the prompt and the chips of all 12
\* predefined questions, leaves the session pending FAQ, submits exactly one
\* conversation record (faq_start) and makes no generative call.
C4_FaqTriggerPrompts ==
    \A p \in Workers :
        (Done(p) /\ NeitherPending(p) /\ IsFaqChipClick(w[p].req.queryText)) =>
            /\ w[p].reply = FulfillmentMessages(<<Str(FaqPromptText)>>, FaqChips)
            /\ Len(w[p].reply.chips) = 12
            /\ w[p].req.session \in faqPendingSessions
            /\ Len(w[p].recs) = 1
            /\ w[p].recs[1].table = "conversations"
            /\ w[p].recs[1].record.record_type = Str(<<"faq_start">>)
            /\ w[p].prompts = <<>>

\* C5: a turn of a pending-FAQ session whose text is a predefined question
\* makes no generative call, whatever slot values it carries, and once
\* answered the reply is the predefined answer and the session is no longer
\* pending FAQ.
C5_PredefinedAnsweredVerbatim ==
    \A p \in Workers :
        (Started(p) /\ w[p].hasPendingFaqTop
            /\ Normalized(w[p].req.queryText) \in PredefinedKeys) =>
            /\ w[p].prompts = <<>>
            /\ Done(p) =>
                /\ w[p].reply = FulfillmentMessages(
                       <<PredefinedAnswerOf(Normalized(w[p].req.queryText))>>, <<>>)
                /\ w[p].req.session \notin faqPendingSessions

\* the record has field k with value v
Has(record, k, v) == k \in DOMAIN record /\ record[k] = v

IsFaqRecord(r) ==
    \/ r.table = "faqs"
    \/ r.table = "conversations" /\ Has(r.record, "record_type", Str(<<"faq">>))

\* C6: a turn of a pending-FAQ session whose question is neither predefined
\* nor a trigger label marks its records used_gemini = true and, once
\* answered, has called the generative fallback exactly once, replied with
\* the returned text and submitted a conversation record and an FAQ record.
C6_OtherQuestionsUseGemini ==
    \A p \in Workers :
        (Started(p) /\ w[p].hasPendingFaqTop
            /\ ~IsFaqChipClick(w[p].req.queryText)
            /\ Normalized(FaqQuestion(w[p].req).s) \notin PredefinedKeys) =>
            /\ \A i \in DOMAIN w[p].recs :
                  IsFaqRecord(w[p].recs[i]) => w[p].recs[i].record.used_gemini = Bool(TRUE)
            /\ Done(p) =>
                /\ Len(w[p].prompts) = 1
                /\ w[p].answer.t = "string"
                /\ w[p].reply = FulfillmentMessages(<<w[p].answer>>, <<>>)
                /\ \E i \in DOMAIN w[p].recs : w[p].recs[i].table = "conversations"
                /\ \E i \in DOMAIN w[p].recs : w[p].recs[i].table = "faqs"

\* C7: a Customer Support turn whose confidence is a number below the
\* threshold calls the generative fallback, replies with
\* { fulfillmentText: <fallback text> } and submits one conversation record
\* (used_gemini, low_confidence) and no support record; with a confidence at
\* or above the threshold, or absent, the path is not taken.
C7_LowConfidenceFallback ==
    \A p \in Workers :
        (Done(p) /\ w[p].handler = "Customer Support") =>
            IF w[p].req.confidence.t = "number" /\ w[p].req.confidence.n < 6
            THEN /\ Len(w[p].prompts) = 1
                 /\ w[p].reply = FulfillmentText(w[p].answer)
                 /\ Len(w[p].recs) = 1
                 /\ w[p].recs[1].table = "conversations"
                 /\ w[p].recs[1].record.used_gemini = Bool(TRUE)
                 /\ Has(w[p].recs[1].record, "fallback_reason", Str(<<"low_confidence">>))
                 /\ ~Has(w[p].recs[1].record, "record_type", Str(<<"support">>))
            ELSE /\ w[p].prompts = <<>>
                 /\ \A i \in DOMAIN w[p].recs :
                       ~Has(w[p].recs[i].record, "fallback_reason", Str(<<"low_confidence">>))

\* the fields of a support turn that are missing, in the order name, email,
\* message: a slot that is absent or blank once normalised (the message
\* falls back to the query text)
MissingOf(req) ==
    LET Blank(f) ==
            CASE f = <<"name">> -> ~Truthy(normalizeString(Get(req.parameters, "name")))
              [] f = <<"email">> -> ~Truthy(normalizeString(Get(req.parameters, "email")))
              [] f = <<"message">> ->
                    ~Truthy(normalizeString(Or(Get(req.parameters, "message"),
                                               Str(req.queryText))))
    IN  SelectSeq(<< <<"name">>, <<"email">>, <<"message">> >>, Blank)

IncompleteSupportTurn(p) ==
    /\ Done(p)
    /\ w[p].handler = "Customer Support"
    /\ ~(w[p].req.confidence.t = "number" /\ w[p].req.confidence.n < 6)
    /\ MissingOf(w[p].req) # <<>>

\* C8: a Customer Support turn off the low-confidence path with a missing
\* field is answered "I still need your <missing fields joined by ' and '>.
\* Please provide the remaining detail(s) so I can log your request.",
\* submits no record, makes no generative call and leaves both pending sets
\* as they were.
C8_MissingFieldsPrompt ==
    /\ [](\A p \in Workers :
            IncompleteSupportTurn(p) =>
                /\ w[p].reply =
                       FulfillmentMessages(
                           << Str(<<"I still need your ">>
                                  \o Join(MissingOf(w[p].req), <<" and ">>)
                                  \o <<". Please provide the remaining detail(s) so I can log your request.">>) >>,
                           <<>>)
                /\ w[p].recs = <<>>
                /\ w[p].prompts = <<>>)
    /\ [][\A p \in Workers :
            (w[p].pc = "idle" /\ IncompleteSupportTurn(p)') =>
                /\ faqPendingSessions' = faqPendingSessions
                /\ feedbackPendingSessions' = feedbackPendingSessions]_vars

\* C8 witness: a support turn with confidence 0.9 and only the email missing
\* has been answered "I still need your email. ...".
C8_Witness ==
    \E p \in Workers :
        /\ IncompleteSupportTurn(p)
        /\ w[p].req.confidence = Num(9)
        /\ MissingOf(w[p].req) = << <<"email">> >>
        /\ w[p].reply.texts =
               << Str(<<"I still need your ", "email",
                        ". Please provide the remaining detail(s) so I can log your request.">>) >>

IsTriggerLabel(text) == IsFaqChipClick(text) \/ IsFeedbackChipClick(text)

OnlyStartRecord(p, type) ==
    /\ Len(w[p].recs) <= 1
    /\ \A i \in DOMAIN w[p].recs :
          /\ w[p].recs[i].table = "conversations"
          /\ Has(w[p].recs[i].record, "record_type", type)

\* every FAQ record follows a conversation record of type faq of the same
\* session with the same question and answer
FaqRecordsMatched(p) ==
    \A i \in DOMAIN w[p].recs :
        w[p].recs[i].table = "faqs" =>
            \E j \in 1..(i - 1) :
                /\ w[p].recs[j].table = "conversations"
                /\ Has(w[p].recs[j].record, "record_type", Str(<<"faq">>))
                /\ w[p].recs[j].record.session_id = w[p].recs[i].record.session_id
                /\ w[p].recs[j].record.user_message = w[p].recs[i].record.question_text
                /\ w[p].recs[j].record.response_text = w[p].recs[i].record.answer_text

\* every Feedback record follows a conversation record of type feedback of
\* the same session with the same text and rating
FeedbackRecordsMatched(p) ==
    \A i \in DOMAIN w[p].recs :
        w[p].recs[i].table = "feedbacks" =>
            \E j \in 1..(i - 1) :
                /\ w[p].recs[j].table = "conversations"
                /\ Has(w[p].recs[j].record, "record_type", Str(<<"feedback">>))
                /\ w[p].recs[j].record.session_id = w[p].recs[i].record.session_id
                /\ w[p].recs[j].record.user_message = w[p].recs[i].record.feedback_text
                /\ w[p].recs[j].record.feedback_rating = w[p].recs[i].record.feedback_rating

\* FAQ and Feedback records come from the answering step of their own flow
RecordsFromAnsweringStep(p) ==
    \A i \in DOMAIN w[p].recs :
        /\ w[p].recs[i].table = "faqs" =>
              w[p].handler = "FAQ" /\ ~IsFaqChipClick(w[p].req.queryText)
        /\ w[p].recs[i].table = "feedbacks" =>
              w[p].handler = "Feedback" /\ ~IsFeedbackChipClick(w[p].req.queryText)

\* C9 as stated: a turn whose query text is a trigger label of either flow
\* submits only a conversation record of type faq_start or feedback_start,
\* and FAQ and Feedback records come only from answering steps, after the
\* matching conversation record.
C9_AsStated ==
    \A p \in Workers :
        Started(p) =>
            /\ IsTriggerLabel(w[p].req.queryText) =>
                  \/ OnlyStartRecord(p, Str(<<"faq_start">>))
                  \/ OnlyStartRecord(p, Str(<<"feedback_start">>))
            /\ RecordsFromAnsweringStep(p)
            /\ FaqRecordsMatched(p)
            /\ FeedbackRecordsMatched(p)

\* C9 amended: a turn handled by the flow whose own trigger label is its
\* query text submits only that flow's start record, and FAQ and Feedback
\* records come only from answering steps, after the matching conversation
\* record.
C9_PromptingStepsSubmitNoFlowRecord ==
    \A p \in Workers :
        Started(p) =>
            /\ (w[p].handler = "FAQ" /\ IsFaqChipClick(w[p].req.queryText)) =>
                  OnlyStartRecord(p, Str(<<"faq_start">>))
            /\ (w[p].handler = "Feedback" /\ IsFeedbackChipClick(w[p].req.queryText)) =>
                  OnlyStartRecord(p, Str(<<"feedback_start">>))
            /\ RecordsFromAnsweringStep(p)
            /\ FaqRecordsMatched(p)
            /\ FeedbackRecordsMatched(p)

\* C9 witness: an answering turn whose question comes from the topic slot
\* has submitted its FAQ record.
C9_Witness ==
    \E p \in Workers :
        /\ Done(p) /\ ~w[p].threw
        /\ "topic" \in DOMAIN w[p].req.parameters
        /\ \E i \in DOMAIN w[p].recs : w[p].recs[i].table = "faqs"

\* C10: every request is answered exactly once: no invocation replies twice,
\* a finished one has replied once with status 200, one that threw has
\* replied with the apology text, and every invocation finishes.
C10_ExactlyOneReply ==
    /\ [](\A p \in Workers :
            /\ w[p].nresp <= 1
            /\ InFlight(p) => w[p].nresp = 0
            /\ w[p].pc = "done" =>
                  /\ w[p].nresp = 1
                  /\ w[p].reply.kind \in {"fulfillmentText", "fulfillmentMessages"}
                  /\ w[p].reply.status = 200
            /\ w[p].threw =>
                  /\ w[p].pc = "done"
                  /\ w[p].reply = FulfillmentText(Str(ApologyText)))
    /\ \A p \in Workers : (w[p].pc # "idle") ~> (w[p].pc = "done")

\* C10 witness: a request without queryResult has been answered with the
\* apology text.
C10_Witness ==
    \E p \in Workers :
        /\ w[p].pc = "done" /\ w[p].threw /\ w[p].nresp = 1
        /\ w[p].req.body = "noQueryResult"
        /\ w[p].reply = FulfillmentText(Str(ApologyText))

\* C11: the save operations never raise to the handler, so a persistence
\* failure never changes what the user receives: a well-formed turn never
\* ends in the top-level catch and is never answered with the apology text,
\* whether its inserts succeeded, returned an error, threw or were skipped.
C11_PersistenceFailureInvisible ==
    \A p \in Workers :
        (Done(p) /\ w[p].recs # <<>>) =>
            /\ ~w[p].threw
            /\ w[p].reply # FulfillmentText(Str(ApologyText))

\* C12: generateFallbackResponse always returns a non-empty string: the
\* canned apology "...rephrase?" when the client is unconfigured or the
\* generative call throws, a canned apology when the generated text is
\* absent, empty or whitespace-only, and otherwise the generated text
\* trimmed.
C12_FallbackTextNeverEmpty ==
    (call.fn = "generateFallbackResponse" /\ call.ret # <<>>) =>
        LET outcome == call.args[1]
            text == call.ret[1]
        IN  /\ text.t = "string"
            /\ text.s # <<>>
            /\ Trim(text.s) # <<>>
            /\ IF geminiClient = "null" \/ outcome.k = "throw"
               THEN text = Str(CannedRephrase)
               ELSE IF outcome.k = "absent" \/ Trim(outcome.s) = <<>>
               THEN text \in {Str(CannedRephrase), Str(CannedClarify)}
               ELSE /\ text = Str(Trim(outcome.s))
                    /\ Head(text.s) \notin WhiteSpace
                    /\ text.s[Len(text.s)] \notin WhiteSpace

\* C12 witness: with the client configured, a whitespace-only generated text
\* has been answered with the canned apology "...clarify?".
C12_Witness ==
    /\ call.fn = "generateFallbackResponse" /\ call.ret # <<>>
    /\ geminiClient = "client"
    /\ call.args[1].k = "text"
    /\ call.args[1].s = <<" ", "  ">>
    /\ call.ret[1] = Str(CannedClarify)

\* the records the invocation p gave to a save function that reached its
\* insert, each with the row the insert was given
InsertedBy(p) ==
    { [record |-> w[p].recs[i].record, row |-> InsertedRows(w[p].recs[i].record)[1]] :
        i \in {k \in DOMAIN w[p].recs : InsertedRows(w[p].recs[k].record) # <<>>} }

IsBlankOrUndefined(value) ==
    \/ value.t = "undefined"
    \/ value.t = "string" /\ Trim(value.s) = <<>>

\* C13: every row given to an insert has the keys of the record it was made
\* from, no field that is undefined or a string empty after trimming: each
\* such field of the record is null in the row, every other field is the
\* record's.
C13_InsertedRowsSanitized ==
    \A p \in Workers : \A x \in InsertedBy(p) :
        /\ DOMAIN x.row = DOMAIN x.record
        /\ \A key \in DOMAIN x.row :
              /\ ~IsBlankOrUndefined(x.row[key])
              /\ IsBlankOrUndefined(x.record[key]) => x.row[key] = Null
              /\ ~IsBlankOrUndefined(x.record[key]) => x.row[key] = x.record[key]

\* C13 witness: a record with a whitespace-only user_message and an
\* undefined intent_confidence has been inserted with both fields null.
C13_Witness ==
    \E p \in Workers : \E x \in InsertedBy(p) :
        /\ x.record.user_message = Str(<<"  ">>)
        /\ x.record.intent_confidence = Undefined
        /\ x.row.user_message = Null
        /\ x.row.intent_confidence = Null
        /\ x.row.session_id = w[p].req.session

\* C14: the sanitizer is idempotent: applied to a record it returned, it
\* returns that record.
C14_SanitizerIdempotent ==
    (call.fn = "sanitizedRecord" /\ Len(call.ret) = 2) => call.ret[2] = call.ret[1]

\* C14 witness: a record with an undefined field and a blank field, which
\* the first application changed, has been sanitized twice.
C14_Witness ==
    /\ call.fn = "sanitizedRecord" /\ Len(call.ret) = 2
    /\ call.args[1]["a"] = Undefined
    /\ call.args[1]["b"] = Str(<<"  ">>)
    /\ call.args[1]["c"] = Str(<<" ", "x">>)
    /\ call.ret[1] # call.args[1]
    /\ call.ret[2] = [a |-> Null, b |-> Null, c |-> Str(<<" ", "x">>)]

\* a source of a precedence chain that is absent or blank after trimming: an
\* absent value, a blank string, or an object-shaped slot value none of whose
\* name, original and displayName sub-fields is a non-blank string
BlankSource(value) ==
    \/ value.t \in {"undefined", "null"}
    \/ value.t = "string" /\ Trim(value.s) = <<>>
    \/ /\ value.t = "object"
       /\ \A k \in {"name", "original", "displayName"} \cap DOMAIN value.o :
             \/ value.o[k].t \in {"undefined", "null"}
             \/ value.o[k].t = "string" /\ Trim(value.o[k].s) = <<>>

\* C15: extractName, extractEmail, extractUserMessage and extractFaqTopic
\* never return the empty string, and return null when every source of the
\* chain (and the fallback text) is absent or blank after trimming.
C15_ExtractorsNeverReturnEmpty ==
    (call.fn \in {"extractName", "extractEmail", "extractUserMessage", "extractFaqTopic"}
        /\ call.ret # <<>>) =>
        /\ call.ret[1] # Str(<<>>)
        /\ (/\ \A k \in DOMAIN call.args[1] : BlankSource(call.args[1][k])
            /\ Len(call.args) = 2 => BlankSource(call.args[2]))
              => call.ret[1] = Null

\* the value the chain name, person.name, person.original, given-name selects
\* (the first that is present), trimmed; null when it is blank or absent
ChainName(parameters) ==
    LET person == parameters["person"]
        first == IF Truthy(parameters["name"]) THEN parameters["name"]
                 ELSE IF Truthy(AndGet(person, "name")) THEN AndGet(person, "name")
                 ELSE IF Truthy(AndGet(person, "original")) THEN AndGet(person, "original")
                 ELSE parameters["given-name"]
    IN  IF first.t = "string" /\ Trim(first.s) # <<>> THEN Str(Trim(first.s)) ELSE Null

\* C16: extractName returns the trimmed value of the first present source in
\* the order name, person.name, person.original, given-name; in particular
\* the given-name value when name is absent and person is absent or an
\* object with neither name nor original.
C16_NamePrecedenceChain ==
    (call.fn = "extractName" /\ call.ret # <<>>
        /\ call.args[1]["name"].t \in {"undefined", "string"}) =>
        call.ret[1] = ChainName(call.args[1])

\* the number a rating value stands for: the number itself, the number a
\* numeric string spells, null for any other value
RatingNumber(value) ==
    IF value.t = "number" THEN value
    ELSE IF value.t = "string" /\ Trim(value.s) = <<"0">> THEN Num(0)
    ELSE IF value.t = "string" /\ Trim(value.s) = <<"4.5">> THEN Num(45)
    ELSE Null

\* a rating source that is present: a number (0 included) or a non-empty string
RatingPresent(value) == value.t = "number" \/ (value.t = "string" /\ value.s # <<>>)

\* C17: extractRating returns null when none of rating, score,
\* feedback-rating is present or the first present one is non-numeric, and
\* otherwise the numeric value of the first present one, 0 and numeric
\* strings included.
C17_RatingOfFirstPresent ==
    (call.fn = "extractRating" /\ call.ret # <<>>) =>
        LET q == call.args[1]
        IN  call.ret[1] =
                (IF RatingPresent(q["rating"]) THEN RatingNumber(q["rating"])
                 ELSE IF RatingPresent(q["score"]) THEN RatingNumber(q["score"])
                 ELSE IF RatingPresent(q["feedback-rating"])
                      THEN RatingNumber(q["feedback-rating"])
                 ELSE Null)

PendingFaqFeedbackLabel(p) ==
    Started(p) /\ w[p].hasPendingFaqTop /\ IsFeedbackChipClick(w[p].req.queryText)

\* C18 as stated: a turn of a pending-FAQ session whose query text is the
\* Feedback chip label keeps the intent Feedback set by the chip override
\* and is handled by the Feedback flow.
C18_AsStated ==
    \A p \in Workers :
        PendingFaqFeedbackLabel(p) =>
            /\ w[p].intentName = IntentFeedback
            /\ w[p].handler = "Feedback"

\* C18 amended: for a turn of a pending-FAQ session whose query text is a
\* Feedback chip label, the chip override maps the text to Feedback, the
\* pending-FAQ override then fires and forces FAQ, and the turn is handled
\* by the answering step of the FAQ flow: every conversation record it
\* submits has type faq and it submits no Feedback record.
C18_PendingFaqOutranksFeedbackChip ==
    \A p \in Workers :
        PendingFaqFeedbackLabel(p) =>
            /\ chipIntentMap(Normalized(w[p].req.queryText)) = IntentFeedback
            /\ w[p].intentName = IntentFaq
            /\ w[p].handler = "FAQ"
            /\ \A i \in DOMAIN w[p].recs :
                  w[p].recs[i].table = "conversations" =>
                      Has(w[p].recs[i].record, "record_type", Str(<<"faq">>))
            /\ \A i \in DOMAIN w[p].recs : w[p].recs[i].table # "feedbacks"

\* C18 witness: a pending-FAQ turn with the text "Leave Feedback" has been
\* answered by the FAQ flow with the generated answer.
C18_Witness ==
    \E p \in Workers :
        /\ Done(p) /\ ~w[p].threw
        /\ w[p].hasPendingFaqTop
        /\ w[p].req.queryText = <<"Leave Feedback">>
        /\ w[p].req.intent = IntentFeedback
        /\ w[p].handler = "FAQ"
        /\ w[p].usedGemini
        /\ w[p].reply = FulfillmentMessages(<<w[p].answer>>, <<>>)

\* C19: with the turns handled one at a time, once a turn of a pending-FAQ
\* (pending-Feedback) session has been answered, the session is out of that
\* pending set when the turn's text is none of that flow's trigger labels,
\* whether the answer was predefined or generated, and still in it when the
\* text is one of them.
C19_FollowUpLeavesFlow ==
    \A p \in Workers :
        Done(p) =>
            /\ w[p].hasPendingFaqTop =>
                  (w[p].req.session \in faqPendingSessions
                      <=> IsFaqChipClick(w[p].req.queryText))
            /\ w[p].hasPendingFeedbackTop =>
                  (w[p].req.session \in feedbackPendingSessions
                      <=> IsFeedbackChipClick(w[p].req.queryText))

\* C19 witness: a pending-FAQ turn with a question that is not predefined has
\* been answered with the generated text and the session has left the flow.
C19_Witness ==
    \E p \in Workers :
        /\ Done(p) /\ ~w[p].threw
        /\ w[p].hasPendingFaqTop
        /\ w[p].req.queryText = <<"why is the sky blue">>
        /\ w[p].usedGemini
        /\ w[p].req.session \notin faqPendingSessions

\* the invocation p takes a step for a turn of session s
TurnStepOf(p, s) == w'[p] # w[p] /\ w'[p].pc # "idle" /\ w'[p].req.session = s

\* C20: a session id enters the pending-FAQ set only in the arrival step of a
\* turn of that session whose text is an FAQ trigger label, and the
\* pending-Feedback set only in the arrival step of a turn of that session
\* whose text is a Feedback trigger label; a step of a turn changes the
\* pending membership of no session id but its own.
C20_PendingAddedOnlyByOwnTrigger ==
    [][\A s \in SessionIds :
          /\ (s \in faqPendingSessions' /\ s \notin faqPendingSessions) =>
                \E p \in Workers :
                    /\ w[p].pc = "idle" /\ TurnStepOf(p, s)
                    /\ IsFaqChipClick(w'[p].req.queryText)
          /\ (s \in feedbackPendingSessions' /\ s \notin feedbackPendingSessions) =>
                \E p \in Workers :
                    /\ w[p].pc = "idle" /\ TurnStepOf(p, s)
                    /\ IsFeedbackChipClick(w'[p].req.queryText)
          /\ ((s \in faqPendingSessions') # (s \in faqPendingSessions)
                \/ (s \in feedbackPendingSessions') # (s \in feedbackPendingSessions)) =>
                \E p \in Workers : TurnStepOf(p, s)]_vars

\* C20 witness: a turn with reported intent FAQ and a text that is no trigger
\* label has been answered in a session that was and is in neither pending
\* set, while another session is pending FAQ.
C20_Witness ==
    \E p \in Workers :
        /\ Done(p) /\ ~w[p].threw
        /\ w[p].req.intent = IntentFaq
        /\ w[p].handler = "FAQ"
        /\ ~IsFaqChipClick(w[p].req.queryText)
        /\ NeitherPending(p)
        /\ w[p].req.session \notin faqPendingSessions \cup feedbackPendingSessions
        /\ faqPendingSessions # {}

\* the flow handler that serves an intent name
HandlerOf(intent) ==
    CASE intent = IntentWelcome -> "Welcome"
      [] intent = IntentSupport -> "Customer Support"
      [] intent = IntentFaq -> "FAQ"
      [] intent = IntentFeedback -> "Feedback"
      [] OTHER -> "Fallback"

\* the flow a known quick-reply label is mapped to
LabelIntent(label) ==
    CASE label \in { <<"customer support">>, <<"customer support help">> } -> IntentSupport
      [] label \in { <<"faq">>, <<"frequently asked questions">> } -> IntentFaq
      [] label \in { <<"feedback">>, <<"leave feedback">> } -> IntentFeedback

KnownLabels ==
    { <<"customer support">>, <<"customer support help">>, <<"faq">>,
      <<"frequently asked questions">>, <<"feedback">>, <<"leave feedback">> }

\* C21: in a session pending in neither flow, a turn whose text, trimmed and
\* lowercased, is a known quick-reply label is handled by the flow the label
\* maps to, whatever the reported intent, and a turn whose text is no label
\* is handled according to the reported intent.
C21_ChipLabelWinsElseReportedIntent ==
    \A p \in Workers :
        (Started(p) /\ NeitherPending(p)) =>
            w[p].handler =
                (IF Normalized(w[p].req.queryText) \in KnownLabels
                 THEN HandlerOf(LabelIntent(Normalized(w[p].req.queryText)))
                 ELSE HandlerOf(w[p].req.intent))

\* an answering turn of session s that arrived after the last FAQ chip click
\* of s is being served
AnsweringSinceClick(s) ==
    \E p \in hist.epoch : w[p].req.session = s

\* C22: under interleaved handling of the turns of a session, the pending-FAQ
\* marker set by a chip click stays until a turn that arrived after the chip
\* click performs the answering step: whenever the most recently answered
\* request of a session got the FAQ prompt, and no turn that arrived after
\* the last chip click is answering, the session is pending FAQ.
C22_MarkerSurvivesOlderAnswer ==
    \A s \in SessionIds :
        (s \in hist.prompted /\ ~AnsweringSinceClick(s)) => s \in faqPendingSessions

\* C23: between two consecutive FAQ chip clicks of a session, at most one
\* turn forced to the FAQ flow by the pending override submits an FAQ record,
\* in any interleaving.
C23_MarkerConsumedOnce ==
    \A s \in SessionIds : hist.forced[s] <= 1

FollowupReasons ==
    { Str(<<"faq_followup">>), Str(<<"faq_followup_predefined">>),
      Str(<<"feedback_followup">>) }

FallbackPendingBranches ==
    { "fbk_faq_gemini", "fbk_faq_save_conv", "fbk_faq_save_faq",
      "fbk_fb_save_conv", "fbk_fb_save_fb" }

\* C24: a turn handled by the unrecognized-intent handler arrived while its
\* session was in neither pending set, it is never in one of the handler's
\* pending-flow branches, and no record with fallback_reason faq_followup,
\* faq_followup_predefined or feedback_followup is submitted by any turn,
\* also when the turns of a session are interleaved.
C24_FallbackPendingBranchesDead ==
    \A p \in Workers :
        Started(p) =>
            /\ w[p].handler = "Fallback" =>
                  (NeitherPending(p) /\ w[p].pc \notin FallbackPendingBranches)
            /\ \A i \in DOMAIN w[p].recs :
                  \A reason \in FollowupReasons :
                      ~Has(w[p].recs[i].record, "fallback_reason", reason)

\* C24 witness: a turn handled by the unrecognized-intent handler is waiting
\* for the generative call while a chip click that arrived after it has made
\* its session pending FAQ.
C24_Witness ==
    \E p, q \in Workers :
        /\ p # q
        /\ Started(p) /\ w[p].handler = "Fallback" /\ w[p].pc = "fbk_gemini"
        /\ Started(q) /\ w[q].req.session = w[p].req.session
        /\ IsFaqChipClick(w[q].req.queryText)
        /\ w[p].req.session \in faqPendingSessions

\* C25: an answered turn of a session pending in neither flow that was handled
\* by the unrecognized-intent handler has called the generative fallback
\* exactly once with the query text ("Hello" when it is empty), submitted
\* exactly one conversation record with used_gemini = true and
\* fallback_reason unknown_intent, got { fulfillmentText: generated text } as
\* its reply, and its session is still in neither pending set.
C25_UnknownIntentFallback ==
    \A p \in Workers :
        (Done(p) /\ NeitherPending(p) /\ w[p].handler = "Fallback") =>
            /\ w[p].prompts = <<QueryOrHello(w[p].req.queryText)>>
            /\ Len(w[p].recs) = 1
            /\ w[p].recs[1].table = "conversations"
            /\ w[p].recs[1].record.used_gemini = Bool(TRUE)
            /\ Has(w[p].recs[1].record, "fallback_reason", Str(<<"unknown_intent">>))
            /\ w[p].reply = FulfillmentText(w[p].answer)
            /\ w[p].req.session \notin faqPendingSessions
            /\ w[p].req.session \notin feedbackPendingSessions
=============================================================================
